---- MODULE Spec2Model ----
(***************************************************************************)
(* The three upload pipelines of rpscrape:                                 *)
(*   "batch"  : batch_upload_to_supabase.py   (CSV, insert, moves files)   *)
(*   "upsert" : upload_to_supabase.py         (CSV, upsert, moves files)   *)
(*   "cards"  : upload_racecards_to_supabase.py (JSON, insert, no move)    *)
(* A run discovers the files of the pending directory, parses each,        *)
(* uploads its rows batch by batch, archives it (CSV pipelines) and exits. *)
(***************************************************************************)
EXTENDS Integers, Sequences, FiniteSets, TLC

\* ---------------------------------------------------------------- bounds
\* Files ever dropped into the pending directory.
MaxDrops == 2
\* datetime.now(), in whole seconds, returns 0..MaxClock.
MaxClock == 1
\* Direct calls of upload_to_supabase: rows 0..MaxRows, batch sizes 1..MaxBatch.
MaxRows == 4
MaxBatch == 3
\* Typed batches of 0..MaxTyped rows, uploaded up to MaxUploads times.
MaxTyped == 2
MaxUploads == 2
\* Comment texts of 0..MaxComment characters; 0..MaxAround lines before and
\* after the line looked at.
MaxComment == 3
MaxAround == 1
\* Numeral texts of 0..MaxChars characters.
MaxChars == 3
\* Runners lists of 0..MaxRunners runners.
MaxRunners == 2

\* ------------------------------------------------------- program constants
\* upload_to_supabase(rows, batch_size = 100)
DefaultBatchSize == 100
\* comment_parts = row[38:]; row = row[:38] + [...]
CommentIndex == 38

Variants == {"batch", "upsert", "cards"}
CsvVariants == {"batch", "upsert"}

\* File names of the pending directory (stem; the extension is fixed by the glob).
Stems == {"a", "b"}
\* A processed name without timestamp suffix.
NoTs == 0 - 1

\* What a source file holds, as far as the pipeline can tell:
\*   readable = FALSE : parse raises (open/decode/next(reader)/json.load fails)
\*   nrows            : rows the parse (or flatten) returns
\*   bad              : the rows (by position) on which transform_row_for_supabase raises
FileKinds ==
    { [readable |-> FALSE, nrows |-> 0,   bad |-> {}],
      [readable |-> TRUE,  nrows |-> 0,   bad |-> {}],
      [readable |-> TRUE,  nrows |-> 1,   bad |-> {}],
      [readable |-> TRUE,  nrows |-> 250, bad |-> {}],
      [readable |-> TRUE,  nrows |-> 250, bad |-> {101}] }

\* A file archived by a run before the ones observed.
OldContent == [serial |-> 0, kind |-> [readable |-> TRUE, nrows |-> 1, bad |-> {}]]

Min(x, y) == IF x <= y THEN x ELSE y

\* range(1, n+1) as a sequence: the rows of a file, named by position.
Rows(n) == [k \in 1..n |-> k]

\* All orders in which a directory listing may return the names of S.
Perms(S) ==
    { s \in [1..Cardinality(S) -> S] : \A x, y \in 1..Cardinality(S) : x # y => s[x] # s[y] }

\* A directory with no file in it.
EmptyDir == [n \in {} |-> 0]

\* The directory d without the file n / with the file n holding c (replacing any
\* file of that name: os.rename and shutil.copy2 both replace the destination).
Without(d, n) == [m \in DOMAIN d \ {n} |-> d[m]]
WithFile(d, n, c) == [m \in DOMAIN d \cup {n} |-> IF m = n THEN c ELSE d[m]]

VARIABLES
    variant,            \* which script this process is
    pending,            \* pending directory: name -> content
    processed,          \* processed directory: [stem, ts] -> content
    clock,              \* the last value datetime.now() returned
    drops,              \* files dropped so far (serial of the next content)
    pc,                 \* position of main
    csv_files,          \* the files main discovered, in listing order
    idx,                \* index of the file the for loop is at
    total_successful,   \* successful_files / total_successful
    total_failed,       \* failed_files / total_failed
    exit_status,        \* -1 while running, else the process exit status
    log,                \* file-level log lines of this run
    hist,               \* what happened to each file of this run
    upc,                \* position inside upload_to_supabase
    up_rows,            \* rows argument
    up_bad,             \* rows on which the transform raises
    batch_size,         \* batch_size argument
    i,                  \* loop variable of range(0, total_rows, batch_size)
    successful_uploads,
    failed_uploads,
    batches,            \* every batch the loop formed, in order
    submitted,          \* every call of execute(): batch number, rows sent, answer
    up_ret,             \* return value of upload_to_supabase
    cell,               \* the value handed to a coercion function (or the record to transform)
    coerced,            \* what the coercion (or transform) call did
    lines,              \* the physical lines of the CSV file below the header
    line_pos,           \* how many of them csv.reader has consumed
    row_num,            \* row_num of parse_csv_file's enumerate(reader, start=2)
    parsed_rows,        \* rows of parse_csv_file, in the order appended
    parse_ret,          \* "running", "returned" or "raised"
    races_data,         \* argument of flatten_race_data
    flat,               \* its return value (or NotFlattened)
    table,              \* the racing_data table of the store
    typed_rows,         \* a typed batch handed to the store
    reports             \* the store's answer and the table after each upload of it

fsVars   == <<pending, processed, clock, drops>>
mainVars == <<pc, csv_files, idx, total_successful, total_failed, exit_status, log, hist>>
upVars   == <<upc, up_rows, up_bad, batch_size, i, successful_uploads, failed_uploads,
              batches, submitted, up_ret>>
coerceVars  == <<cell, coerced>>
parseVars   == <<lines, line_pos, row_num, parsed_rows, parse_ret>>
flattenVars == <<races_data, flat>>
storeVars   == <<table, typed_rows, reports>>
fnVars   == <<coerceVars, parseVars, flattenVars, storeVars>>
pipeVars == <<variant, fsVars, mainVars, upVars>>
vars     == <<pipeVars, fnVars>>

NoRet == [tag |-> "none", ok |-> FALSE, s |-> 0, f |-> 0]

\* Python's None, and a function that has not been called.
None == [t |-> "none"]
NotCalled == [fn |-> "none", raised |-> "no", value |-> None]
NotFlattened == [done |-> FALSE, raised |-> "no", rows |-> <<>>]

\* No coercion, parse, flatten or store call is in progress.
CoerceIdle == cell = None /\ coerced = NotCalled
ParseIdle ==
    /\ lines = <<>>
    /\ line_pos = 0
    /\ row_num = 2
    /\ parsed_rows = <<>>
    /\ parse_ret = "off"
FlattenIdle == races_data = <<>> /\ flat = NotFlattened
StoreIdle == table = <<>> /\ typed_rows = <<>> /\ reports = <<>>
FnIdle == CoerceIdle /\ ParseIdle /\ FlattenIdle /\ StoreIdle

UploadIdle ==
    /\ upc = "off"
    /\ up_rows = <<>>
    /\ up_bad = {}
    /\ batch_size = DefaultBatchSize
    /\ i = 0
    /\ successful_uploads = 0
    /\ failed_uploads = 0
    /\ batches = <<>>
    /\ submitted = <<>>
    /\ up_ret = NoRet

\* The locals of upload_to_supabase go out of scope.
UploadReset ==
    /\ upc' = "off"
    /\ up_rows' = <<>>
    /\ up_bad' = {}
    /\ batch_size' = DefaultBatchSize
    /\ i' = 0
    /\ successful_uploads' = 0
    /\ failed_uploads' = 0
    /\ batches' = <<>>
    /\ submitted' = <<>>
    /\ up_ret' = NoRet

Init ==
    /\ variant \in Variants
    /\ pending = EmptyDir
    /\ processed \in {EmptyDir, WithFile(EmptyDir, [stem |-> "a", ts |-> NoTs], OldContent)}
    /\ clock = 0
    /\ drops = 0
    /\ pc = "idle"
    /\ csv_files = <<>>
    /\ idx = 1
    /\ total_successful = 0
    /\ total_failed = 0
    /\ exit_status = 0 - 1
    /\ log = <<>>
    /\ hist = <<>>
    /\ UploadIdle
    /\ FnIdle

\* ------------------------------------------------------------ environment
\* Somebody puts a new file into the pending directory between two runs.
DropFile ==
    /\ pc \in {"idle", "done"}
    /\ drops < MaxDrops
    /\ \E f \in Stems \ DOMAIN pending, k \in FileKinds :
          pending' = WithFile(pending, f, [serial |-> drops + 1, kind |-> k])
    /\ drops' = drops + 1
    /\ UNCHANGED <<variant, fnVars, processed, clock, mainVars, upVars>>

\* ------------------------------------------------------------------- main
LogLine(f, m) == [file |-> f, msg |-> m]

\* The record kept of one file of the run.
Outcome(f, c, parse, uploaded, moved, dest) ==
    [file |-> f, content |-> c, parse |-> parse, uploaded |-> uploaded,
     ok |-> up_ret.ok, accepted |-> successful_uploads, failed |-> failed_uploads,
     moved |-> moved, dest |-> dest]

NoDest == [stem |-> "", ts |-> NoTs]

\* main() up to the for loop: discover the files; with none, return at once.
\* The racecards script first builds its client, which raises without
\* SUPABASE_URL / SUPABASE_KEY (exit 1); its target is one file or a directory.
StartRun ==
    /\ pc \in {"idle", "done"}
    /\ idx' = 1
    /\ total_successful' = 0
    /\ total_failed' = 0
    /\ log' = <<>>
    /\ hist' = <<>>
    /\ \/ /\ variant = "cards"
          /\ csv_files' = <<>>
          /\ pc' = "done"
          /\ exit_status' = 1
       \/ /\ DOMAIN pending = {}
          /\ csv_files' = <<>>
          /\ pc' = "done"
          /\ exit_status' = 0
       \/ /\ DOMAIN pending # {}
          /\ csv_files' \in Perms(DOMAIN pending)
          /\ pc' = "loop"
          /\ exit_status' = 0 - 1
       \/ /\ variant = "cards"
          /\ \E f \in DOMAIN pending : csv_files' = <<f>>
          /\ Cardinality(DOMAIN pending) > 1
          /\ pc' = "loop"
          /\ exit_status' = 0 - 1
    /\ UNCHANGED <<variant, fnVars, fsVars, upVars>>

\* One file fails before any upload: the counters and log lines of each script.
\* (cards: process_json_file returns (0, 0), which main adds to its totals.)
FailEarly(f, c, parse, inner) ==
    /\ total_failed' = IF variant = "cards" THEN total_failed + 0 ELSE total_failed + 1
    /\ log' = IF variant = "batch"
                THEN log \o <<LogLine(f, inner), LogLine(f, "Failed to process")>>
                ELSE Append(log, LogLine(f, inner))
    /\ hist' = Append(hist, Outcome(f, c, parse, FALSE, "no", NoDest))
    /\ idx' = idx + 1
    /\ UNCHANGED <<pc, csv_files, total_successful, exit_status, upVars>>

\* The head of the for loop over the files: parse (or load and flatten) the
\* next file and, with rows in hand, call upload_to_supabase.
ParseFile ==
    /\ pc = "loop"
    /\ idx <= Len(csv_files)
    /\ LET f == csv_files[idx]
           c == pending[f]
       IN  \/ /\ ~c.kind.readable
              /\ FailEarly(f, c, "raised",
                           CASE variant = "batch"  -> "Error processing file"
                             [] variant = "upsert" -> "Fatal error processing"
                             [] OTHER              -> "Error processing")
           \/ /\ c.kind.readable
              /\ c.kind.nrows = 0
              /\ FailEarly(f, c, "empty",
                           CASE variant = "cards" -> "No rows extracted"
                             [] OTHER             -> "No rows found")
           \/ /\ c.kind.readable
              /\ c.kind.nrows > 0
              /\ pc' = "upload"
              /\ upc' = "init"
              /\ up_rows' = Rows(c.kind.nrows)
              /\ up_bad' = IF variant = "cards" THEN {} ELSE c.kind.bad
              /\ batch_size' = DefaultBatchSize
              /\ UNCHANGED <<csv_files, idx, total_successful, total_failed, exit_status,
                             log, hist, i, successful_uploads, failed_uploads, batches,
                             submitted, up_ret>>
    /\ UNCHANGED <<variant, fnVars, fsVars>>

\* ----------------------------------------------------- upload_to_supabase
\* A slice that stops one row early: rows[start : start + size - 1].
BatchShort(rows, start, size) == SubSeq(rows, start + 1, Min(start + size - 1, Len(rows)))

\* rows[start : start + size]
Batch(rows, start, size) == SubSeq(rows, start + 1, Min(start + size, Len(rows)))

\* A transform loop that drops nothing: every row of the batch is kept.
TransformedAll(batch, bad) == batch

\* The rows of the batch whose transform does not raise, in order.
Transformed(batch, bad) == SelectSeq(batch, LAMBDA r : r \notin bad)

\* What execute() can do with n rows: raise, or return a result whose data
\* holds none, some or all of them.
StoreAnswers(n) ==
    {[err |-> TRUE, data |-> 0]} \cup {[err |-> FALSE, data |-> k] : k \in {0, n - 1, n}}

\* "if result.data:" is false for an empty list.
Refused(ans) == ans.err \/ ans.data = 0

\* What one answer adds to successful_uploads and to failed_uploads.
Accepted(batch, ans) ==
    IF Refused(ans) THEN 0
    ELSE IF variant = "cards" THEN Len(batch) ELSE ans.data
Rejected(batch, ans) == IF Refused(ans) THEN Len(batch) ELSE 0

\* A loop that gives up at the first refused batch (break instead of continue).
NextStartBreak(start, size, ans) == IF Refused(ans) THEN Len(up_rows) ELSE start + size

\* The loop variable after a batch: range() steps on whatever the answer was.
NextStart(start, size, ans) == start + size

BoolRet(b) == [tag |-> "bool", ok |-> b, s |-> 0, f |-> 0]
PairRet(s, f) == [tag |-> "pair", ok |-> FALSE, s |-> s, f |-> f]
NoneRet == [tag |-> "None", ok |-> FALSE, s |-> 0, f |-> 0]

\* Entry of upload_to_supabase. The CSV scripts build the client here and return
\* False when that raises; the racecards script returns None for no data.
UploadInit ==
    /\ upc = "init"
    /\ \/ /\ variant \in CsvVariants
          /\ upc' = "ret"
          /\ up_ret' = BoolRet(FALSE)
       \/ /\ variant = "cards"
          /\ up_rows = <<>>
          /\ upc' = "ret"
          /\ up_ret' = NoneRet
       \/ /\ variant = "cards" => up_rows # <<>>
          /\ upc' = "loop"
          /\ up_ret' = up_ret
    /\ i' = 0
    /\ successful_uploads' = 0
    /\ failed_uploads' = 0
    /\ UNCHANGED <<variant, fnVars, fsVars, mainVars, up_rows, up_bad, batch_size, batches, submitted>>

\* One pass of the for loop: slice the batch, transform its rows (CSV scripts),
\* skip it when nothing is left, else submit it and count the answer.
UploadBatch ==
    /\ upc = "loop"
    /\ i < Len(up_rows)
    /\ LET batch     == Batch(up_rows, i, batch_size)
           batch_num == (i \div batch_size) + 1
           tb        == IF variant = "cards" THEN batch ELSE Transformed(batch, up_bad)
           dropped   == Len(batch) - Len(tb)
       IN  /\ batches' = Append(batches, batch)
           /\ \/ /\ tb = <<>>
                 /\ failed_uploads' = failed_uploads + dropped
                 /\ i' = i + batch_size
                 /\ UNCHANGED <<successful_uploads, submitted>>
              \/ /\ tb # <<>>
                 /\ \E ans \in StoreAnswers(Len(tb)) :
                       /\ submitted' = Append(submitted,
                              [batch_num |-> batch_num, size |-> Len(batch),
                               rows |-> tb, answer |-> ans])
                       /\ successful_uploads' = successful_uploads + Accepted(batch, ans)
                       /\ failed_uploads' = failed_uploads + dropped + Rejected(batch, ans)
                       /\ i' = NextStart(i, batch_size, ans)
    /\ UNCHANGED <<variant, fnVars, fsVars, mainVars, upc, up_rows, up_bad, batch_size, up_ret>>

\* The value a completed loop returns.
UploadResult(s, f) == IF variant = "cards" THEN PairRet(s, f) ELSE BoolRet(f = 0)

\* The loop is exhausted: log the totals and return.
UploadReturn ==
    /\ upc = "loop"
    /\ i >= Len(up_rows)
    /\ upc' = "ret"
    /\ up_ret' = UploadResult(successful_uploads, failed_uploads)
    /\ UNCHANGED <<variant, fnVars, fsVars, mainVars, up_rows, up_bad, batch_size, i,
                   successful_uploads, failed_uploads, batches, submitted>>

\* ------------------------------------------------------- back in the caller
\* Where a file goes in the processed directory. batch: the same name, or
\* stem_<timestamp> when that name is taken; upsert: always the same name.
\* now is what datetime.now() returns, to the second.
MoveDest(f, now) ==
    IF variant = "batch" /\ [stem |-> f, ts |-> NoTs] \in DOMAIN processed
    THEN [stem |-> f, ts |-> now]
    ELSE [stem |-> f, ts |-> NoTs]

\* The times datetime.now() may return: never earlier than the last one. The
\* clock is read only when the plain name is taken.
Now(f) ==
    IF variant = "batch" /\ [stem |-> f, ts |-> NoTs] \in DOMAIN processed
    THEN clock..MaxClock
    ELSE {clock}

\* A caller that archives whenever upload_to_supabase returned.
ShouldMoveAlways(ret) == ret.tag = "bool"

\* The caller archives the file exactly when the upload reported success.
ShouldMove(ret) == ret.ok

\* The log lines of a file whose upload did not succeed.
UploadFailedLog(f) ==
    IF variant = "batch"
    THEN <<LogLine(f, "Upload failed for file"), LogLine(f, "Failed to process")>>
    ELSE <<LogLine(f, "Upload failed")>>

\* A caller that reports a failed move in the words of a failed upload.
MoveFailedLogAsUpload(f) == UploadFailedLog(f)

\* The log lines of a file whose upload succeeded but whose move raised.
MoveFailedLog(f) ==
    IF variant = "batch"
    THEN <<LogLine(f, "Successfully uploaded all data"), LogLine(f, "Error moving file"),
           LogLine(f, "File processed but failed to move")>>
    ELSE <<LogLine(f, "Upload completed successfully"), LogLine(f, "Fatal error processing")>>

\* The log lines of a file uploaded and moved.
MovedLog(f) ==
    IF variant = "batch"
    THEN <<LogLine(f, "Successfully uploaded all data"), LogLine(f, "Moved to processed directory"),
           LogLine(f, "Successfully processed and moved")>>
    ELSE <<LogLine(f, "Upload completed successfully"), LogLine(f, "Moved to processed folder")>>

\* upload_to_supabase has returned: the CSV scripts move the file on success
\* (the move itself may raise) and count the file; the racecards script adds
\* the row counts to its totals. Then the for loop goes to the next file.
AfterUpload ==
    /\ pc = "upload"
    /\ upc = "ret"
    /\ LET f == csv_files[idx]
           c == pending[f]
       IN  \/ /\ variant \in CsvVariants
              /\ ShouldMove(up_ret)
              /\ \E now \in Now(f) :
                    /\ clock' = now
                    /\ processed' = WithFile(processed, MoveDest(f, now), c)
                    /\ hist' = Append(hist, Outcome(f, c, "rows", TRUE, "ok", MoveDest(f, now)))
              /\ pending' = Without(pending, f)
              /\ total_successful' = total_successful + 1
              /\ total_failed' = total_failed
              /\ log' = log \o MovedLog(f)
           \/ /\ variant \in CsvVariants
              /\ ShouldMove(up_ret)
              /\ UNCHANGED <<pending, processed, total_successful, clock>>
              /\ total_failed' = total_failed + 1
              /\ log' = log \o MoveFailedLog(f)
              /\ hist' = Append(hist, Outcome(f, c, "rows", TRUE, "failed", NoDest))
           \/ /\ variant \in CsvVariants
              /\ ~ShouldMove(up_ret)
              /\ UNCHANGED <<pending, processed, total_successful, clock>>
              /\ total_failed' = total_failed + 1
              /\ log' = log \o UploadFailedLog(f)
              /\ hist' = Append(hist, Outcome(f, c, "rows", TRUE, "no", NoDest))
           \/ /\ variant = "cards"
              /\ UNCHANGED <<pending, processed, log, clock>>
              /\ total_successful' = total_successful + up_ret.s
              /\ total_failed' = total_failed + up_ret.f
              /\ hist' = Append(hist, Outcome(f, c, "rows", TRUE, "no", NoDest))
    /\ idx' = idx + 1
    /\ pc' = "loop"
    /\ UploadReset
    /\ UNCHANGED <<variant, fnVars, drops, csv_files, exit_status>>

\* The status main ends with: the CSV scripts exit 1 when a file failed; the
\* racecards script only logs a warning and falls off the end of main.
ExitCode(failed) ==
    IF variant = "cards" THEN 0
    ELSE IF failed = 0 THEN 0 ELSE 1

\* After the last file: the summary and the exit.
Finish ==
    /\ pc = "loop"
    /\ idx > Len(csv_files)
    /\ log' = Append(log, LogLine("", "SUMMARY"))
    /\ exit_status' = ExitCode(total_failed)
    /\ pc' = "done"
    /\ UNCHANGED <<variant, fnVars, fsVars, csv_files, idx, total_successful, total_failed, hist, upVars>>

Next ==
    \/ DropFile
    \/ StartRun
    \/ ParseFile
    \/ UploadInit
    \/ UploadBatch
    \/ UploadReturn
    \/ AfterUpload
    \/ Finish

Spec == Init /\ [][Next]_vars

\* ------------------------------------------- upload_to_supabase called alone
\* The calls checked: every row count and batch size within the bounds, the
\* default batch size, and 250 rows in batches of 100.
UploadCalls ==
    { [n |-> n, size |-> b] : n \in 0..MaxRows, b \in (1..MaxBatch) \cup {DefaultBatchSize} }
      \cup { [n |-> 250, size |-> DefaultBatchSize] }

\* The rows whose transform raises: none, the first, all (CSV scripts only).
BadRows(n) == IF n = 0 THEN {{}} ELSE {{}, {1}, 1..n}

InitUpload ==
    /\ variant \in Variants
    /\ pending = EmptyDir
    /\ processed = EmptyDir
    /\ clock = 0
    /\ drops = 0
    /\ pc = "direct"
    /\ csv_files = <<>>
    /\ idx = 1
    /\ total_successful = 0
    /\ total_failed = 0
    /\ exit_status = 0 - 1
    /\ log = <<>>
    /\ hist = <<>>
    /\ upc = "init"
    /\ \E call \in UploadCalls :
          /\ up_rows = Rows(call.n)
          /\ batch_size = call.size
          /\ up_bad \in (IF variant = "cards" THEN {{}} ELSE BadRows(call.n))
    /\ i = 0
    /\ successful_uploads = 0
    /\ failed_uploads = 0
    /\ batches = <<>>
    /\ submitted = <<>>
    /\ up_ret = NoRet
    /\ FnIdle

NextUpload ==
    \/ UploadInit
    \/ UploadBatch
    \/ UploadReturn

SpecUpload == InitUpload /\ [][NextUpload]_vars

\* --------------------------------------------- the functions called alone
\* The pipeline stands still while one of its functions is exercised.
PipeOff ==
    /\ pending = EmptyDir
    /\ processed = EmptyDir
    /\ clock = 0
    /\ drops = 0
    /\ pc = "direct"
    /\ csv_files = <<>>
    /\ idx = 1
    /\ total_successful = 0
    /\ total_failed = 0
    /\ exit_status = 0 - 1
    /\ log = <<>>
    /\ hist = <<>>
    /\ UploadIdle

\* Python values: None, int, str.
PyInt(n) == [t |-> "int", n |-> n]

\* ------------------------------------------------------------ parse_csv_file
\* expected_columns
ExpectedColumns ==
    <<"date", "region", "course", "off", "race_name", "type", "class", "pattern",
      "rating_band", "age_band", "sex_rest", "dist", "dist_f", "dist_m", "going",
      "ran", "num", "pos", "draw", "ovr_btn", "btn", "horse", "age", "sex", "lbs",
      "hg", "time", "secs", "dec", "jockey", "trainer", "prize", "or", "rpr",
      "sire", "dam", "damsire", "owner", "comment">>

Range(f) == {f[x] : x \in DOMAIN f}
ColumnIndex(c) == CHOOSE j \in 1..Len(ExpectedColumns) : ExpectedColumns[j] = c

\* Text is a sequence of characters; these two are the reader's dialect.
Delim == ","
Quote == "\""
Newline == "\n"

\* ','.join(parts)
RECURSIVE JoinFields(_)
JoinFields(parts) ==
    IF parts = <<>> THEN <<>>
    ELSE IF Len(parts) = 1 THEN parts[1]
    ELSE parts[1] \o <<Delim>> \o JoinFields(Tail(parts))

\* A physical line of the file: its text without the line end, or a line on
\* which reading raises (bytes that are not UTF-8, a field over the csv field
\* size limit).
Line(text) == [text |-> text, bad |-> FALSE]
BadLine == [text |-> <<>>, bad |-> TRUE]

\* The reader's parser: its state, the field being read, the fields read.
ReaderStates ==
    {"START_RECORD", "START_FIELD", "IN_FIELD", "IN_QUOTED_FIELD", "QUOTE_IN_QUOTED_FIELD"}
ReaderStart == [st |-> "START_RECORD", field |-> <<>>, fields |-> <<>>]

\* csv.reader(quotechar='"', quoting=QUOTE_MINIMAL), default doublequote, not
\* strict: the parser takes the character c.
ReaderStep(s, c) ==
    CASE s.st \in {"START_RECORD", "START_FIELD"} ->
           IF c = Quote THEN [s EXCEPT !.st = "IN_QUOTED_FIELD", !.field = <<>>]
           ELSE IF c = Delim
             THEN [st |-> "START_FIELD", field |-> <<>>, fields |-> Append(s.fields, <<>>)]
           ELSE [s EXCEPT !.st = "IN_FIELD", !.field = <<c>>]
      [] s.st = "IN_FIELD" ->
           IF c = Delim
             THEN [st |-> "START_FIELD", field |-> <<>>, fields |-> Append(s.fields, s.field)]
           ELSE [s EXCEPT !.field = Append(@, c)]
      [] s.st = "IN_QUOTED_FIELD" ->
           IF c = Quote THEN [s EXCEPT !.st = "QUOTE_IN_QUOTED_FIELD"]
           ELSE [s EXCEPT !.field = Append(@, c)]
      [] OTHER ->   \* QUOTE_IN_QUOTED_FIELD
           IF c = Quote THEN [s EXCEPT !.st = "IN_QUOTED_FIELD", !.field = Append(@, Quote)]
           ELSE IF c = Delim
             THEN [st |-> "START_FIELD", field |-> <<>>, fields |-> Append(s.fields, s.field)]
           ELSE [s EXCEPT !.st = "IN_FIELD", !.field = Append(@, c)]

\* The parser after the characters t[a..b], taken in order.
\* (Halving keeps the evaluation shallow; the left half is computed before the
\* right half is entered.)
RECURSIVE ReaderText(_, _, _, _)
ReaderText(s, t, a, b) ==
    IF a > b THEN s
    ELSE IF a = b THEN ReaderStep(s, t[a])
    ELSE LET left == ReaderText(s, t, a, (a + b) \div 2)
         IN  IF left.st \in ReaderStates THEN ReaderText(left, t, (a + b) \div 2 + 1, b)
             ELSE left

\* next(reader) from line n of ls on: the fields of the record and the last
\* line consumed. A line end inside a quoted field belongs to the field and the
\* record goes on with the next line; at the end of the file the field ends.
RECURSIVE ReaderScan(_, _, _)
ReaderScan(ls, n, s) ==
    IF ls[n].bad THEN [raised |-> TRUE, row |-> <<>>, last |-> n]
    ELSE
      LET e == ReaderText(s, ls[n].text, 1, Len(ls[n].text))
      IN  CASE e.st = "IN_QUOTED_FIELD" ->
                 IF n < Len(ls)
                   THEN ReaderScan(ls, n + 1, [e EXCEPT !.field = Append(@, Newline)])
                   ELSE [raised |-> FALSE, last |-> n,
                         row |-> Append(e.fields, Append(e.field, Newline))]
            [] e.st = "START_RECORD" -> [raised |-> FALSE, row |-> <<>>, last |-> n]
            [] OTHER -> [raised |-> FALSE, row |-> Append(e.fields, e.field), last |-> n]

ReadRecord(ls, n) == ReaderScan(ls, n, ReaderStart)

\* A repair that only pads.
RepairPadOnly(row) ==
    IF Len(row) < Len(ExpectedColumns)
      THEN row \o [k \in 1..(Len(ExpectedColumns) - Len(row)) |-> <<>>]
      ELSE row

\* if len(row) != len(expected_columns): pad with '' up to the expected count;
\* beyond it, row[:38] + [','.join(row[38:])]
RepairRow(row) ==
    LET padded == IF Len(row) < Len(ExpectedColumns)
                    THEN row \o [k \in 1..(Len(ExpectedColumns) - Len(row)) |-> <<>>]
                    ELSE row
    IN  IF Len(padded) > Len(ExpectedColumns)
          THEN Append(SubSeq(padded, 1, CommentIndex),
                      JoinFields(SubSeq(padded, CommentIndex + 1, Len(padded))))
          ELSE padded

\* A record keyed by what the header row names its columns.
RowDictByHeader(row) ==
    LET header == ReadRecord(lines, 1).row
    IN  [c \in {ExpectedColumns[j] : j \in 1..Min(Len(header), Len(ExpectedColumns))} |->
            IF ColumnIndex(c) <= Len(row) THEN row[ColumnIndex(c)] ELSE <<>>]

\* row_dict[col_name] = row[i] if i < len(row) else ''
RowDict(row) ==
    [c \in Range(ExpectedColumns) |->
        IF ColumnIndex(c) <= Len(row) THEN row[ColumnIndex(c)] ELSE <<>>]

\* The files parsed. A line holds the 38 leading fields, each a word naming
\* its column, and the comment text; or the first n of those fields only.
IntactFields == [j \in 1..CommentIndex |-> <<ExpectedColumns[j]>>]
FullLine(comment) == Line(JoinFields(Append(IntactFields, comment)))
ShortLine(n) == Line(JoinFields(SubSeq(IntactFields, 1, n)))

CommentChars == {"a", Delim, Quote}
Comments == UNION { [1..n -> CommentChars] : n \in 0..MaxComment }

\* The lines around the line looked at, and the lines looked at.
PlainLines == {FullLine(<<"a">>), ShortLine(0), BadLine}
SubjectLines == {FullLine(c) : c \in Comments} \cup {ShortLine(1), ShortLine(CommentIndex)}
Around == UNION { [1..n -> PlainLines] : n \in 0..MaxAround }
Headers == {Line(JoinFields([j \in 1..Len(ExpectedColumns) |-> <<ExpectedColumns[j]>>])),
            ShortLine(1)}
CsvFiles ==
    {<<>>} \cup { <<h>> \o pre : h \in Headers, pre \in Around }
           \cup { <<h>> \o pre \o <<l>> \o post :
                    h \in Headers, pre \in Around, l \in SubjectLines, post \in Around }

\* (upload_to_supabase.py holds the same parse_csv_file, character for character.)
InitParse ==
    /\ variant = "batch"
    /\ PipeOff
    /\ CoerceIdle /\ FlattenIdle /\ StoreIdle
    /\ lines \in CsvFiles
    /\ line_pos = 0
    /\ row_num = 2
    /\ parsed_rows = <<>>
    /\ parse_ret = "open"

\* header = next(reader): an empty file or an unreadable first line raises,
\* and the outer except re-raises.
ParseHeader ==
    /\ parse_ret = "open"
    /\ IF lines = <<>> \/ ReadRecord(lines, 1).raised
         THEN /\ parse_ret' = "raised"
              /\ UNCHANGED line_pos
         ELSE /\ parse_ret' = "loop"
              /\ line_pos' = ReadRecord(lines, 1).last
    /\ UNCHANGED <<pipeVars, coerceVars, flattenVars, storeVars, lines, row_num, parsed_rows>>

\* One turn of for row_num, row in enumerate(reader, start=2): the for
\* statement asks the reader for the next row (an exception there is not inside
\* the try of the loop body: the outer except logs it and re-raises); the body
\* repairs the row, maps it onto the expected columns and appends it.
ParseRow ==
    /\ parse_ret = "loop"
    /\ line_pos < Len(lines)
    /\ LET rec == ReadRecord(lines, line_pos + 1)
       IN  IF rec.raised
             THEN /\ parse_ret' = "raised"
                  /\ UNCHANGED <<line_pos, row_num, parsed_rows>>
             ELSE /\ parsed_rows' = Append(parsed_rows,
                                           [row_num  |-> row_num,
                                            first    |-> line_pos + 1,
                                            row      |-> rec.row,
                                            row_dict |-> RowDict(RepairRow(rec.row))])
                  /\ line_pos' = rec.last
                  /\ row_num' = row_num + 1
                  /\ UNCHANGED parse_ret
    /\ UNCHANGED <<pipeVars, coerceVars, flattenVars, storeVars, lines>>

\* The reader is exhausted: return rows.
ParseReturn ==
    /\ parse_ret = "loop"
    /\ line_pos >= Len(lines)
    /\ parse_ret' = "returned"
    /\ UNCHANGED <<pipeVars, coerceVars, flattenVars, storeVars, lines, line_pos, row_num,
                   parsed_rows>>

NextParse ==
    \/ ParseHeader
    \/ ParseRow
    \/ ParseReturn

SpecParse == InitParse /\ [][NextParse]_vars

\* ------------------------------------------------------ Python conversions
\* Python values besides None and int: str (a sequence of characters), float,
\* list (a JSON array) and dict (a JSON object: its key, value pairs in order).
PyStr(s) == [t |-> "str", s |-> s]
PyFloat(f) == [t |-> "float", f |-> f]
JsonArray(items) == [t |-> "list", items |-> items]
JsonObject(items) == [t |-> "dict", items |-> items]
PyList == JsonArray(<<PyInt(1)>>)

\* A float: m * 10^x with m not a multiple of ten (finite), an infinity, or NaN.
Fin(m, x) == [cls |-> "fin", m |-> m, x |-> x]
Inf(neg) == [cls |-> "inf", m |-> IF neg THEN 0 - 1 ELSE 1, x |-> 0]
NaN == [cls |-> "nan", m |-> 0, x |-> 0]

Abs(n) == IF n < 0 THEN 0 - n ELSE n

DigitChars == <<"0", "1", "2", "3", "4", "5", "6", "7", "8", "9">>
DigitVal(c) == (CHOOSE k \in 1..Len(DigitChars) : DigitChars[k] = c) - 1
IsDigits(s) == s # <<>> /\ \A k \in 1..Len(s) : s[k] \in Range(DigitChars)

RECURSIVE DigitsVal(_)
DigitsVal(ds) ==
    IF ds = <<>> THEN 0
    ELSE DigitsVal(SubSeq(ds, 1, Len(ds) - 1)) * 10 + DigitVal(ds[Len(ds)])

RECURSIVE NumDigits(_)
NumDigits(n) == IF n < 10 THEN 1 ELSE 1 + NumDigits(n \div 10)

\* str.strip(), str.lower() on the characters the inputs use.
RECURSIVE LStrip(_)
LStrip(s) == IF s # <<>> /\ Head(s) = " " THEN LStrip(Tail(s)) ELSE s
RECURSIVE RStrip(_)
RStrip(s) == IF s # <<>> /\ s[Len(s)] = " " THEN RStrip(SubSeq(s, 1, Len(s) - 1)) ELSE s
Strip(s) == RStrip(LStrip(s))

LowerChar(c) ==
    CASE c = "I" -> "i" [] c = "N" -> "n" [] c = "F" -> "f" [] c = "A" -> "a"
      [] c = "T" -> "t" [] c = "Y" -> "y" [] c = "E" -> "e" [] OTHER -> c
Lower(s) == [k \in 1..Len(s) |-> LowerChar(s[k])]

\* The binary64 float nearest to m * 10^x (m >= 0), with the sign neg: zero,
\* an infinity from 1.8e308 up, else the number itself in lowest terms.
\* (Rounding of the last bits and underflow are left out; no input of the
\* model lies between 1.7e308 and 1.8e308 or below 1e-300.)
RECURSIVE MakeFloat(_, _, _)
MakeFloat(neg, m, x) ==
    IF m = 0 THEN Fin(0, 0)
    ELSE IF m % 10 = 0 THEN MakeFloat(neg, m \div 10, x + 1)
    ELSE IF NumDigits(m) + x > 309 THEN Inf(neg)
    ELSE IF NumDigits(m) + x = 309 /\ (m * 10) \div (10 ^ (NumDigits(m) - 1)) >= 18 THEN Inf(neg)
    ELSE Fin(IF neg THEN 0 - m ELSE m, x)

\* float(n) for an int n.
IntToFloat(n) == MakeFloat(n < 0, Abs(n), 0)

ParseError == [ok |-> FALSE, f |-> NaN, n |-> 0]
FloatOk(f) == [ok |-> TRUE, f |-> f, n |-> 0]
IntOk(n) == [ok |-> TRUE, f |-> NaN, n |-> n]

\* [sign] digits: the exponent of a float literal, the body of an int literal.
ParseSigned(s) ==
    LET signed == s # <<>> /\ s[1] \in {"+", "-"}
        ds == IF signed THEN Tail(s) ELSE s
    IN  IF IsDigits(ds)
          THEN IntOk(IF s[1] = "-" THEN 0 - DigitsVal(ds) ELSE DigitsVal(ds))
          ELSE ParseError

\* digits [. digits] | . digits, then [e [sign] digits]
ParseDecimal(neg, body) ==
    LET es == {k \in 1..Len(body) : body[k] = "e"}
        epos == IF es = {} THEN Len(body) + 1 ELSE CHOOSE k \in es : \A j \in es : k <= j
        mant == SubSeq(body, 1, epos - 1)
        exp == IF es = {} THEN IntOk(0) ELSE ParseSigned(SubSeq(body, epos + 1, Len(body)))
        ds == {k \in 1..Len(mant) : mant[k] = "."}
        dpos == IF ds = {} THEN Len(mant) + 1 ELSE CHOOSE k \in ds : \A j \in ds : k <= j
        ip == SubSeq(mant, 1, dpos - 1)
        fp == SubSeq(mant, dpos + 1, Len(mant))
    IN  IF exp.ok /\ IsDigits(ip \o fp)
          THEN FloatOk(MakeFloat(neg, DigitsVal(ip \o fp), exp.n - Len(fp)))
          ELSE ParseError

\* float(s) for a str s: ok is FALSE where Python raises ValueError.
ParseFloat(s) ==
    LET t == Strip(s)
        signed == t # <<>> /\ t[1] \in {"+", "-"}
        neg == t # <<>> /\ t[1] = "-"
        body == Lower(IF signed THEN Tail(t) ELSE t)
    IN  IF body \in {<<"i", "n", "f">>, <<"i", "n", "f", "i", "n", "i", "t", "y">>}
          THEN FloatOk(Inf(neg))
        ELSE IF body = <<"n", "a", "n">> THEN FloatOk(NaN)
        ELSE ParseDecimal(neg, body)

\* int(s) for a str s.
ParseInt(s) == ParseSigned(Strip(s))

\* int(f) for a finite float f: toward zero.
Trunc(f) ==
    IF f.x >= 0 THEN f.m * (10 ^ f.x)
    ELSE IF f.m < 0 THEN 0 - (Abs(f.m) \div (10 ^ (0 - f.x)))
    ELSE f.m \div (10 ^ (0 - f.x))

\* ---------------------------------------------------- the coercion functions
\* What a call did: returned a value, or raised an exception it does not catch.
Returned(fn, v) == [fn |-> fn, raised |-> "no", value |-> v]
Raised(fn, e) == [fn |-> fn, raised |-> e, value |-> None]
Done(v) == [exc |-> "no", value |-> v]
Exc(e) == [exc |-> e, value |-> None]

\* pd.isna(value) for a scalar
PdIsNa(v) == v = None \/ (v.t = "float" /\ v.f.cls = "nan")

\* float(value)
PyFloatOf(v) ==
    CASE v.t = "str" -> IF ParseFloat(v.s).ok THEN Done(PyFloat(ParseFloat(v.s).f))
                        ELSE Exc("ValueError")
      [] v.t = "int" -> Done(PyFloat(IntToFloat(v.n)))
      [] v.t = "float" -> Done(v)
      [] OTHER -> Exc("TypeError")

\* int(f) for a float f
PyIntOfFloat(f) ==
    CASE f.cls = "inf" -> Exc("OverflowError")
      [] f.cls = "nan" -> Exc("ValueError")
      [] OTHER -> Done(PyInt(Trunc(f)))

\* int(value)
PyIntOf(v) ==
    CASE v.t = "str" -> IF ParseInt(v.s).ok THEN Done(PyInt(ParseInt(v.s).n))
                        ELSE Exc("ValueError")
      [] v.t = "int" -> Done(v)
      [] v.t = "float" -> PyIntOfFloat(v.f)
      [] OTHER -> Exc("TypeError")

\* try: return <conversion> / except (ValueError, TypeError): return None
Guarded(fn, r) ==
    IF r.exc = "no" THEN Returned(fn, r.value)
    ELSE IF r.exc \in {"ValueError", "TypeError"} THEN Returned(fn, None)
    ELSE Raised(fn, r.exc)

EmptyStr == PyStr(<<>>)

\* batch_upload_to_supabase.py / upload_to_supabase.py
safe_convert_to_int(v) ==
    IF PdIsNa(v) \/ v = EmptyStr \/ v = None THEN Returned("safe_convert_to_int", None)
    ELSE Guarded("safe_convert_to_int",
                 IF PyFloatOf(v).exc = "no" THEN PyIntOfFloat(PyFloatOf(v).value.f)
                 ELSE PyFloatOf(v))

safe_convert_to_float(v) ==
    IF PdIsNa(v) \/ v = EmptyStr \/ v = None THEN Returned("safe_convert_to_float", None)
    ELSE Guarded("safe_convert_to_float", PyFloatOf(v))

\* str(value).strip(), for the str values a CSV cell holds
safe_convert_to_str(v) ==
    IF PdIsNa(v) \/ v = EmptyStr \/ v = None THEN Returned("safe_convert_to_str", None)
    ELSE Returned("safe_convert_to_str", PyStr(Strip(v.s)))

\* upload_racecards_to_supabase.py
safe_int(v) ==
    IF v = None \/ v = EmptyStr THEN Returned("safe_int", None)
    ELSE Guarded("safe_int", PyIntOf(v))

safe_float(v) ==
    IF v = None \/ v = EmptyStr THEN Returned("safe_float", None)
    ELSE Guarded("safe_float", PyFloatOf(v))

\* transform_row_for_supabase: which conversion each CSV column gets.
IntColumns == {"dist_m", "ran", "num", "pos", "draw", "age", "lbs", "or", "rpr"}
FloatColumns == {"ovr_btn", "btn", "secs", "dec", "prize"}
ConvertColumn(c, v) ==
    IF c \in IntColumns THEN safe_convert_to_int(v)
    ELSE IF c \in FloatColumns THEN safe_convert_to_float(v)
    ELSE safe_convert_to_str(v)

\* The key under which the typed record holds column c ('or' -> 'or_rating').
TypedName(c) == IF c = "or" THEN "or_rating" ELSE c

\* transform_row_for_supabase(row): the typed record, unless a conversion raises.
transform_row_for_supabase(row) ==
    LET out == [c \in Range(ExpectedColumns) |-> ConvertColumn(c, PyStr(row[c]))]
        raising == {c \in Range(ExpectedColumns) : out[c].raised # "no"}
    IN  IF raising # {}
          THEN Raised("transform_row_for_supabase", out[CHOOSE c \in raising : TRUE].raised)
          ELSE Returned("transform_row_for_supabase",
                        [k \in {TypedName(c) : c \in Range(ExpectedColumns)} |->
                            out[CHOOSE c \in Range(ExpectedColumns) : TypedName(c) = k].value])

\* The values coerced: every text of up to MaxChars characters of a numeral,
\* the texts below, and what else a JSON document can hold.
NumChars == {"7", "0", ".", "-"}
NumStrings == UNION { [1..n -> NumChars] : n \in 0..MaxChars }
WordStrings ==
    { <<"i", "n", "f">>, <<"-", "i", "n", "f">>, <<"I", "n", "f", "i", "n", "i", "t", "y">>,
      <<"1", "e", "9", "9", "9">>, <<"-", "1", "e", "9", "9", "9">>, <<"1", "e", "2">>,
      <<"1", ".", "5", "e", "1">>, <<"N", "a", "N">>, <<"n", "a", "n">>,
      <<"a", "b", "c">>, <<"P", "U">>, <<" ", "7", " ">>, <<" ">>, <<"+", "7">>,
      <<"7", "e">>, <<"7", ".", "9">>, <<"-", "3", ".", "5">> }
CsvCells == {None} \cup {PyStr(s) : s \in NumStrings \cup WordStrings}
JsonCells ==
    CsvCells \cup {PyInt(7), PyInt(0), PyInt(0 - 3), PyFloat(Fin(7, 0)), PyFloat(Fin(79, 0 - 1)),
                   PyFloat(Fin(0 - 35, 0 - 1)), PyFloat(Inf(FALSE)), PyFloat(Inf(TRUE)),
                   PyFloat(NaN), PyList}

\* The columns a text is tried in: an int, a float and a str column.
ProbedColumns == {"ran", "secs", "comment"}

\* A parsed CSV row with the text s in column col and "7" in every other.
RowWith(col, s) == [c \in Range(ExpectedColumns) |-> IF c = col THEN s ELSE <<"7">>]

InitCoerce ==
    /\ variant \in Variants
    /\ PipeOff
    /\ ParseIdle /\ FlattenIdle /\ StoreIdle
    /\ cell \in (IF variant = "cards" THEN JsonCells ELSE CsvCells)
    /\ coerced = NotCalled

CallSafeConvertToInt ==
    /\ variant \in CsvVariants
    /\ coerced = NotCalled
    /\ coerced' = safe_convert_to_int(cell)
    /\ UNCHANGED <<pipeVars, parseVars, flattenVars, storeVars, cell>>

CallSafeConvertToFloat ==
    /\ variant \in CsvVariants
    /\ coerced = NotCalled
    /\ coerced' = safe_convert_to_float(cell)
    /\ UNCHANGED <<pipeVars, parseVars, flattenVars, storeVars, cell>>

CallSafeConvertToStr ==
    /\ variant \in CsvVariants
    /\ coerced = NotCalled
    /\ coerced' = safe_convert_to_str(cell)
    /\ UNCHANGED <<pipeVars, parseVars, flattenVars, storeVars, cell>>

CallSafeInt ==
    /\ variant = "cards"
    /\ coerced = NotCalled
    /\ coerced' = safe_int(cell)
    /\ UNCHANGED <<pipeVars, parseVars, flattenVars, storeVars, cell>>

CallSafeFloat ==
    /\ variant = "cards"
    /\ coerced = NotCalled
    /\ coerced' = safe_float(cell)
    /\ UNCHANGED <<pipeVars, parseVars, flattenVars, storeVars, cell>>

\* transform_row_for_supabase on a row that holds the text of cell in one column.
CallTransformRow ==
    /\ variant \in CsvVariants
    /\ coerced = NotCalled
    /\ cell.t = "str"
    /\ \E col \in ProbedColumns :
          LET r == transform_row_for_supabase(RowWith(col, cell.s))
          IN  coerced' = [fn |-> r.fn, col |-> col, raised |-> r.raised, value |-> r.value]
    /\ UNCHANGED <<pipeVars, parseVars, flattenVars, storeVars, cell>>

NextCoerce ==
    \/ CallSafeConvertToInt
    \/ CallSafeConvertToFloat
    \/ CallSafeConvertToStr
    \/ CallSafeInt
    \/ CallSafeFloat
    \/ CallTransformRow

SpecCoerce == InitCoerce /\ [][NextCoerce]_vars

\* ------------------------------------------------------ flatten_race_data
\* race_info: the key of the row, the key read from race_data, what is done
\* to the value.
RaceFields ==
    <<<<"race_id", "race_id", "get">>, <<"date", "date", "date">>,
      <<"course", "course", "get">>, <<"course_id", "course_id", "int">>,
      <<"region", "region", "get">>, <<"off_time", "off_time", "get">>,
      <<"race_name", "race_name", "get">>, <<"distance_round", "distance_round", "get">>,
      <<"distance", "distance", "get">>, <<"distance_f", "distance_f", "float">>,
      <<"pattern", "pattern", "or_empty">>, <<"race_class", "race_class", "or_empty">>,
      <<"type", "type", "get">>, <<"age_band", "age_band", "get">>,
      <<"rating_band", "rating_band", "get">>, <<"prize", "prize", "get">>,
      <<"field_size", "field_size", "int">>, <<"going", "going", "get">>,
      <<"going_detailed", "going_detailed", "get">>,
      <<"rail_movements", "rail_movements", "json">>, <<"stalls", "stalls", "get">>,
      <<"weather", "weather", "get">>, <<"surface", "surface", "get">>>>

\* row.update({...}): the same for a runner.
RunnerFields ==
    <<<<"horse_id", "horse_id", "int">>, <<"horse_name", "name", "get">>,
      <<"number", "number", "int">>, <<"draw", "draw", "int">>, <<"age", "age", "int">>,
      <<"sex", "sex", "get">>, <<"sex_code", "sex_code", "get">>,
      <<"colour", "colour", "get">>, <<"horse_region", "region", "get">>,
      <<"dob", "dob", "date">>, <<"breeder", "breeder", "get">>, <<"sire", "sire", "get">>,
      <<"sire_region", "sire_region", "get">>, <<"dam", "dam", "get">>,
      <<"dam_region", "dam_region", "get">>, <<"grandsire", "grandsire", "get">>,
      <<"damsire", "damsire", "get">>, <<"damsire_region", "damsire_region", "get">>,
      <<"trainer", "trainer", "get">>, <<"trainer_id", "trainer_id", "int">>,
      <<"trainer_location", "trainer_location", "get">>,
      <<"trainer_14_days", "trainer_14_days", "json">>,
      <<"trainer_rtf", "trainer_rtf", "get">>, <<"owner", "owner", "get">>,
      <<"jockey", "jockey", "get">>, <<"jockey_id", "jockey_id", "int">>,
      <<"lbs", "lbs", "int">>, <<"ofr", "ofr", "int">>, <<"rpr", "rpr", "int">>,
      <<"ts", "ts", "int">>, <<"headgear", "headgear", "get">>,
      <<"headgear_first", "headgear_first", "get">>, <<"last_run", "last_run", "get">>,
      <<"form", "form", "get">>, <<"prev_trainers", "prev_trainers", "json">>,
      <<"prev_owners", "prev_owners", "json">>, <<"comment", "comment", "get">>,
      <<"spotlight", "spotlight", "get">>, <<"medical", "medical", "json">>,
      <<"quotes", "quotes", "json">>, <<"stable_tour", "stable_tour", "json">>,
      <<"stats", "stats", "json">>>>

\* bool(value)
Truthy(v) ==
    CASE v.t = "none" -> FALSE
      [] v.t = "str" -> v.s # <<>>
      [] v.t = "int" -> v.n # 0
      [] v.t = "float" -> v.f # Fin(0, 0)
      [] OTHER -> v.items # <<>>

\* separator.join(parts)
RECURSIVE JoinWith(_, _)
JoinWith(parts, sep) ==
    IF parts = <<>> THEN <<>>
    ELSE IF Len(parts) = 1 THEN parts[1]
    ELSE parts[1] \o sep \o JoinWith(Tail(parts), sep)

\* json.dumps(value), for a string, an array of strings, an object of strings
\* (characters that need no escape).
DumpsStr(v) == <<Quote>> \o v.s \o <<Quote>>
Dumps(v) ==
    CASE v.t = "str" -> PyStr(DumpsStr(v))
      [] v.t = "list" ->
           PyStr(<<"[">> \o JoinWith([k \in 1..Len(v.items) |-> DumpsStr(v.items[k])], <<",", " ">>)
                 \o <<"]">>)
      [] OTHER ->
           PyStr(<<"{">> \o JoinWith([k \in 1..Len(v.items) |->
                                        DumpsStr(v.items[k][1]) \o <<":", " ">>
                                          \o DumpsStr(v.items[k][2])], <<",", " ">>)
                 \o <<"}">>)

\* date_str.split('T')[0]
BeforeT(chars) ==
    SubSeq(chars, 1, (CHOOSE k \in 1..Len(chars) :
                         chars[k] = "T" /\ \A j \in 1..(k - 1) : chars[j] # "T") - 1)

\* safe_date: falsy gives None; a str is cut at its first 'T'; the bare except
\* turns the TypeError of 'T' in <number> into None.
safe_date(v) ==
    IF ~Truthy(v) THEN None
    ELSE IF v.t = "str" THEN (IF "T" \in Range(v.s) THEN PyStr(BeforeT(v.s)) ELSE v)
    ELSE IF v.t \in {"int", "float"} THEN None
    ELSE v

\* obj.get(key)
Get(obj, key) == IF key \in DOMAIN obj THEN obj[key] ELSE None

\* One entry of the dict literal: the value, or the exception it raises.
FieldOutcome(rule, v) ==
    CASE rule = "int" -> safe_int(v)
      [] rule = "float" -> safe_float(v)
      [] rule = "date" -> Returned(rule, safe_date(v))
      [] rule = "or_empty" -> Returned(rule, IF Truthy(v) THEN v ELSE EmptyStr)
      [] rule = "json" -> Returned(rule, IF Truthy(v) THEN Dumps(v) ELSE None)
      [] OTHER -> Returned(rule, v)

\* The dict literal built from obj by the table fields.
BuildFields(fields, obj) ==
    LET out == [k \in 1..Len(fields) |-> FieldOutcome(fields[k][3], Get(obj, fields[k][2]))]
        raising == {k \in 1..Len(fields) : out[k].raised # "no"}
    IN  IF raising # {}
          THEN [raised |-> out[CHOOSE k \in raising : TRUE].raised, value |-> <<>>]
          ELSE [raised |-> "no",
                value |-> [key \in {fields[k][1] : k \in 1..Len(fields)} |->
                              out[CHOOSE k \in 1..Len(fields) : fields[k][1] = key].value]]

\* race_info.copy() then row.update(runner_fields)
Updated(race_info, runner_fields) ==
    [key \in DOMAIN race_info \cup DOMAIN runner_fields |->
        IF key \in DOMAIN runner_fields THEN runner_fields[key] ELSE race_info[key]]

\* race_data.get('runners', [])
RunnersOf(race_data) ==
    IF "runners" \in DOMAIN race_data THEN race_data["runners"].items ELSE <<>>

\* The body of the innermost loop for one race: its rows, or the exception.
RowsOfRace(race_data) ==
    LET info == BuildFields(RaceFields, race_data)
        runners == RunnersOf(race_data)
        built == [k \in 1..Len(runners) |-> BuildFields(RunnerFields, runners[k])]
    IN  IF info.raised # "no" THEN [raised |-> info.raised, rows |-> <<>>]
        ELSE IF \E k \in 1..Len(runners) : built[k].raised # "no"
          THEN [raised |-> built[CHOOSE k \in 1..Len(runners) : built[k].raised # "no"].raised,
                rows |-> <<>>]
        ELSE [raised |-> "no",
              rows |-> [k \in 1..Len(runners) |-> Updated(info.value, built[k].value)]]

\* The races of a document, in the order the three nested loops visit them.
\* A document is the sequence of its (region, courses) pairs, courses the
\* sequence of (course, times) pairs, times of (off_time, race_data) pairs.
RECURSIVE Concat(_)
Concat(ss) == IF ss = <<>> THEN <<>> ELSE Head(ss) \o Concat(Tail(ss))
RacesOf(doc) ==
    Concat([r \in 1..Len(doc) |->
              Concat([c \in 1..Len(doc[r][2]) |->
                        [k \in 1..Len(doc[r][2][c][2]) |-> doc[r][2][c][2][k][2]]])])

\* The rows of all races, or the first exception: the function has no try.
CollectRows(per) ==
    IF \E k \in 1..Len(per) : per[k].raised # "no"
      THEN [done |-> TRUE, rows |-> <<>>,
            raised |-> per[CHOOSE k \in 1..Len(per) : per[k].raised # "no"].raised]
      ELSE [done |-> TRUE, raised |-> "no",
            rows |-> Concat([k \in 1..Len(per) |-> per[k].rows])]

\* flatten_race_data(races_data)
flatten_race_data(doc) ==
    CollectRows([k \in 1..Len(RacesOf(doc)) |-> RowsOfRace(RacesOf(doc)[k])])

\* The documents flattened. Runners: one with a name only; one with scalar,
\* array and object fields, some empty, and keys named like race keys; one whose
\* rpr is the JSON number 1e999.
Str(word) == PyStr(<<word>>)
RunnerKinds ==
    { [name |-> Str("h1")],
      [name |-> Str("h2"), region |-> Str("IRE"), race_id |-> Str("own"), rpr |-> PyInt(7),
       lbs |-> PyStr(<<"1", "2", "6">>), dob |-> PyStr(<<"2", "0", "T", "9">>),
       quotes |-> JsonArray(<<>>), medical |-> JsonObject(<<>>),
       prev_owners |-> JsonArray(<<Str("o1"), Str("o2")>>),
       stats |-> JsonObject(<< <<Str("course"), Str("1-4")>> >>)],
      [name |-> Str("h3"), rpr |-> PyFloat(Inf(FALSE))] }
RunnerLists == UNION { [1..n -> RunnerKinds] : n \in 0..MaxRunners }

RaceKinds ==
    { [race_id |-> Str("r1"), region |-> Str("GB")],
      [race_id |-> Str("r2"), region |-> Str("GB"), course_id |-> PyInt(12),
       date |-> PyStr(<<"2", "0", "2", "4">>), distance_f |-> PyFloat(Fin(75, 0 - 1)),
       field_size |-> PyStr(<<"7">>), rail_movements |-> JsonArray(<<Str("rail")>>),
       pattern |-> Str("G1")] }

\* A race without the runners key, or with a runners list.
RaceDatas == RaceKinds \cup { race @@ [runners |-> JsonArray(rs)] : race \in RaceKinds, rs \in RunnerLists }
OtherRaceDatas ==
    { [race_id |-> Str("r3")],
      [race_id |-> Str("r4"), stalls |-> Str("far"),
       runners |-> JsonArray(<<[name |-> Str("h4"), stats |-> JsonObject(<<>>)],
                               [name |-> Str("h5")]>>)] }

Documents ==
    {<<>>}
      \cup { << <<"GB", << <<"Ascot", << <<"1:00", r>> >> >> >> >> >> : r \in RaceDatas }
      \cup { << <<"GB", << <<"Ascot", << <<"1:00", r>>, <<"1:30", o>> >> >> >> >> >> :
               r \in RaceDatas, o \in OtherRaceDatas }
      \cup { << <<"GB", << <<"Ascot", << <<"1:00", o>> >> >>, <<"York", << <<"1:10", r>> >> >> >> >> >> :
               r \in RaceDatas, o \in OtherRaceDatas }
      \cup { << <<"GB", << <<"Ascot", << <<"1:00", r>> >> >> >> >>,
                <<"IRE", << <<"Naas", << <<"2:00", o>> >> >> >> >> >> :
               r \in RaceDatas, o \in OtherRaceDatas }

InitFlatten ==
    /\ variant = "cards"
    /\ PipeOff
    /\ CoerceIdle /\ ParseIdle /\ StoreIdle
    /\ races_data \in Documents
    /\ flat = NotFlattened

\* flattened_data = flatten_race_data(races_data)
CallFlatten ==
    /\ variant = "cards"
    /\ ~flat.done
    /\ flat' = flatten_race_data(races_data)
    /\ UNCHANGED <<pipeVars, coerceVars, parseVars, storeVars, races_data>>

NextFlatten == CallFlatten

SpecFlatten == InitFlatten /\ [][NextFlatten]_vars

\* ------------------------------------------------ the store, typed batches
\* Every script but upload_to_supabase.py inserts.
UploadModeInsert(v) == "insert"
\* .upsert(transformed_batch, on_conflict=...) / .insert(transformed_batch)
UploadMode(v) == IF v = "upsert" THEN "upsert" ELSE "insert"

\* on_conflict='date,course,race_name,horse,pos'
OnConflict == <<"date", "course", "race_name", "horse", "pos">>

\* Typed records, as far as the store tells them apart: the key columns and one
\* column outside the key.
TypedRecords ==
    [date : {"d1"}, course : {"c1"}, race_name : {"r1"}, horse : {"h1", "h2"},
     pos : {None, PyInt(1), PyInt(2)}, comment : {"x", "y"}]

KeyOf(row, cols) == [k \in 1..Len(cols) |-> row[cols[k]]]

\* The store writes one row: a stored row with the same values in the conflict
\* columns is replaced where it stands, else the row is added.
UpsertRow(tbl, row, cols) ==
    IF \E k \in 1..Len(tbl) : KeyOf(tbl[k], cols) = KeyOf(row, cols)
      THEN [k \in 1..Len(tbl) |-> IF KeyOf(tbl[k], cols) = KeyOf(row, cols) THEN row ELSE tbl[k]]
      ELSE Append(tbl, row)

RECURSIVE StoreUpsert(_, _, _)
StoreUpsert(tbl, batch, cols) ==
    IF batch = <<>> THEN tbl
    ELSE StoreUpsert(UpsertRow(tbl, Head(batch), cols), Tail(batch), cols)

StoreInsert(tbl, batch) == tbl \o batch

\* execute(): the table after the call and the answer (one returned row per row sent).
Execute(mode, tbl, batch) ==
    [table  |-> IF mode = "upsert" THEN StoreUpsert(tbl, batch, OnConflict)
                ELSE StoreInsert(tbl, batch),
     answer |-> [err |-> FALSE, data |-> Len(batch)]]

\* Batches of typed records up to MaxTyped rows.
TypedBatches == UNION { [1..n -> TypedRecords] : n \in 0..MaxTyped }

InitStore ==
    /\ variant \in CsvVariants
    /\ PipeOff
    /\ CoerceIdle /\ ParseIdle /\ FlattenIdle
    /\ table \in {<<>>, <<[date |-> "d1", course |-> "c1", race_name |-> "r1",
                          horse |-> "h1", pos |-> PyInt(1), comment |-> "old"]>>}
    /\ typed_rows \in TypedBatches
    /\ reports = <<>>

\* upload_to_supabase on rows that transform to typed_rows (one batch, since
\* MaxTyped < batch_size), against a store that answers every call.
UploadTyped ==
    /\ Len(reports) < MaxUploads
    /\ LET sent == IF typed_rows = <<>> THEN [table |-> table, answer |-> [err |-> FALSE, data |-> 0]]
                   ELSE Execute(UploadMode(variant), table, typed_rows)
           s == IF typed_rows = <<>> THEN 0 ELSE Accepted(typed_rows, sent.answer)
           f == IF typed_rows = <<>> THEN 0 ELSE Rejected(typed_rows, sent.answer)
       IN  /\ table' = sent.table
           /\ reports' = Append(reports, [ret |-> UploadResult(s, f), table |-> sent.table])
    /\ UNCHANGED <<pipeVars, coerceVars, parseVars, flattenVars, typed_rows>>

NextStore == UploadTyped

SpecStore == InitStore /\ [][NextStore]_vars

\* =================================================================== claims
\* The for loop of upload_to_supabase ran to its end.
Completed == upc = "ret" /\ i >= Len(up_rows)

CeilDiv(a, b) == (a + b - 1) \div b

RECURSIVE Flatten(_)
Flatten(ss) == IF ss = <<>> THEN <<>> ELSE Head(ss) \o Flatten(Tail(ss))

\* The file of h is where the run found it, untouched.
StillPending(h) == h.file \in DOMAIN pending /\ pending[h.file] = h.content

\* The processed names that hold the content of h.
Archived(h) == {n \in DOMAIN processed : processed[n] = h.content}

\* The upload of h's file lost no row and the file met no failure of its own.
FullySuccessful(h) ==
    /\ h.parse = "rows"
    /\ h.uploaded
    /\ h.failed = 0
    /\ h.moved # "failed"
    /\ variant \in CsvVariants => h.ok
    /\ variant = "cards" => h.accepted = h.content.kind.nrows

\* The messages logged for file f, in order.
Msgs(f) ==
    LET sel == SelectSeq(log, LAMBDA l : l.file = f)
    IN  [k \in 1..Len(sel) |-> sel[k].msg]

\* C1: in the directory pipelines a file leaves pending at most once, and only
\* after its upload ran to the end with zero failed rows; a file whose parse
\* raised or gave no rows, or with a row counted failed, is still in pending.
C1_MoveOnlyAfterCleanUpload ==
    variant \in CsvVariants =>
      /\ \A k \in 1..Len(hist) :
            LET h == hist[k]
            IN  /\ ~StillPending(h) =>
                      /\ h.parse = "rows" /\ h.uploaded /\ h.ok /\ h.failed = 0
                      /\ Cardinality(Archived(h)) = 1
                /\ (h.parse \in {"raised", "empty"} \/ h.failed > 0) =>
                      StillPending(h) /\ Archived(h) = {}
      /\ \A k1, k2 \in 1..Len(hist) : k1 # k2 => hist[k1].file # hist[k2].file
      /\ pc = "upload" => csv_files[idx] \in DOMAIN pending

C1_Witness ==
    /\ variant \in CsvVariants
    /\ pc = "done"
    /\ \E k1, k2 \in 1..Len(hist) :
          /\ ~StillPending(hist[k1]) /\ Archived(hist[k1]) # {}
          /\ hist[k2].failed > 0 /\ StillPending(hist[k2])

\* C2: in every script the exit status is zero only if every discovered file
\* was uploaded with no failed row and no failure of its own.
C2_ExitZeroOnlyIfAllSucceeded ==
    (pc = "done" /\ exit_status = 0) =>
        \A k \in 1..Len(hist) : FullySuccessful(hist[k])

\* The rows sent in the calls the store answered without error but with fewer
\* rows than it was sent.
RECURSIVE ShortRows(_)
ShortRows(sub) ==
    IF sub = <<>> THEN 0
    ELSE (IF ~Head(sub).answer.err /\ Head(sub).answer.data < Len(Head(sub).rows)
          THEN Len(Head(sub).rows) ELSE 0) + ShortRows(Tail(sub))

\* C3: when the store answers a batch without error but returns fewer rows than
\* were sent, all rows of that call are counted failed and the upload is not
\* reported successful.
C3_ShortAnswerCountsFailed ==
    (Completed /\ ShortRows(submitted) > 0) =>
        /\ failed_uploads >= ShortRows(submitted)
        /\ up_ret.tag = "bool" => ~up_ret.ok
        /\ up_ret.tag = "pair" => up_ret.f > 0

\* C4: a move into the processed directory never replaces or removes a file
\* that is there; when the name is taken the file goes under a new name with
\* a timestamp suffix.
C4_MoveNeverOverwrites ==
    [][ /\ \A n \in DOMAIN processed :
              n \in DOMAIN processed' /\ processed'[n] = processed[n]
        /\ \A f \in DOMAIN pending \ DOMAIN pending' :
              [stem |-> f, ts |-> NoTs] \in DOMAIN processed =>
                  \E n \in DOMAIN processed' \ DOMAIN processed :
                      n.stem = f /\ n.ts # NoTs /\ processed'[n] = pending[f]
      ]_vars

\* C5: a file that parses to zero rows is never uploaded, never moved, and is
\* counted as a failed file, in every script.
C5_EmptyFileCountsFailed ==
    [][ ( /\ pc = "loop"
          /\ idx <= Len(csv_files)
          /\ pending[csv_files[idx]].kind.readable
          /\ pending[csv_files[idx]].kind.nrows = 0 )
        => ( /\ upc' = "off"
             /\ submitted' = <<>>
             /\ pending' = pending
             /\ processed' = processed
             /\ total_failed' > total_failed )
      ]_vars

\* C6: the batches of one upload are submitted in increasing order, each at
\* most once, and a refused batch does not keep any later batch from being
\* formed and submitted.
C6_BatchesInOrderAndIsolated ==
    /\ \A k \in 1..(Len(submitted) - 1) :
          submitted[k].batch_num < submitted[k + 1].batch_num
    /\ \A b \in 1..Len(batches) :
          LET sent == {k \in 1..Len(submitted) : submitted[k].batch_num = b}
              tb   == IF variant = "cards" THEN batches[b] ELSE Transformed(batches[b], up_bad)
          IN  IF tb = <<>> THEN sent = {}
              ELSE Cardinality(sent) = 1 /\ \A k \in sent : submitted[k].rows = tb
    /\ Completed => Len(batches) = CeilDiv(Len(up_rows), batch_size)

C6_Witness ==
    /\ Completed
    /\ \E k1, k2 \in 1..Len(submitted) :
          /\ k1 < k2
          /\ submitted[k1].answer.err
          /\ ~submitted[k2].answer.err /\ submitted[k2].answer.data = 0
    /\ Len(submitted) >= 3

\* C7: R rows in batches of B give ceil(R/B) consecutive batches that together
\* are the rows in order; all but the last hold B rows, the last 1..B; 250 rows
\* in batches of 100 give batches of 100, 100 and 50.
C7_BatchPartition ==
    Completed =>
      /\ Len(batches) = CeilDiv(Len(up_rows), batch_size)
      /\ Flatten(batches) = up_rows
      /\ \A b \in 1..(Len(batches) - 1) : Len(batches[b]) = batch_size
      /\ batches # <<>> => Len(batches[Len(batches)]) \in 1..batch_size
      /\ (Len(up_rows) = 250 /\ batch_size = 100) =>
            [b \in 1..Len(batches) |-> Len(batches[b])] = <<100, 100, 50>>

C7_Witness ==
    /\ Completed
    /\ Len(up_rows) = 250
    /\ batch_size = 100
    /\ Len(batches) = 3

\* The calls the store refused (error or empty answer).
RefusedCalls == {k \in 1..Len(submitted) : Refused(submitted[k].answer)}

\* The store refused exactly one batch and returned every row of every other batch.
OneBatchRefused ==
    /\ Completed
    /\ Cardinality(RefusedCalls) = 1
    /\ \A b \in 1..Len(batches) :
          \E k \in 1..Len(submitted) :
              /\ submitted[k].batch_num = b
              /\ k \notin RefusedCalls => submitted[k].answer.data = Len(batches[b])

\* C8: when the store refuses exactly one batch and accepts every other batch
\* in full, accepted = rows - rows of that batch, failed = rows of that batch,
\* and the file is not moved.
C8_OneFailedBatchAccounting ==
    (variant \in CsvVariants /\ OneBatchRefused) =>
        \A k \in RefusedCalls :
            /\ successful_uploads = Len(up_rows) - submitted[k].size
            /\ failed_uploads = submitted[k].size
            /\ ~ShouldMove(up_ret)

\* C9: the run processes every discovered file in turn whatever happened to
\* the ones before, logs its summary, and exits nonzero if any file failed.
C9_EveryFileAttemptedAndReported ==
    (pc = "done" /\ csv_files # <<>>) =>
        /\ Len(hist) = Len(csv_files)
        /\ \A k \in 1..Len(hist) : hist[k].file = csv_files[k]
        /\ log # <<>> /\ log[Len(log)].msg = "SUMMARY"
        /\ (\E k \in 1..Len(hist) : ~FullySuccessful(hist[k])) => exit_status # 0

\* C10: a file whose upload succeeded and whose move failed is logged
\* differently from a file whose upload failed.
C10_MoveFailureLoggedApart ==
    variant \in CsvVariants =>
        \A k1, k2 \in 1..Len(hist) :
            (hist[k1].moved = "failed" /\ hist[k2].uploaded /\ ~hist[k2].ok) =>
                /\ Msgs(hist[k1].file) # Msgs(hist[k2].file)
                /\ \E m \in 1..Len(Msgs(hist[k1].file)) :
                      \A n \in 1..Len(Msgs(hist[k2].file)) :
                          Msgs(hist[k1].file)[m] # Msgs(hist[k2].file)[n]

C10_Witness ==
    /\ variant \in CsvVariants
    /\ pc = "done"
    /\ \E k1, k2 \in 1..Len(hist) :
          /\ hist[k1].moved = "failed" /\ hist[k1].ok /\ hist[k1].failed = 0
          /\ hist[k2].uploaded /\ ~hist[k2].ok /\ hist[k2].failed > 0

\* The natural key of a racing result.
NaturalKey == <<"date", "course", "race_name", "horse", "pos">>

\* The rows of tbl that have the natural key of row.
SameKey(tbl, row) == {j \in 1..Len(tbl) : KeyOf(tbl[j], NaturalKey) = KeyOf(row, NaturalKey)}

\* C11: in upsert mode, against a store that upserts on the natural key, the
\* second upload of a typed batch leaves the table as the first left it, with
\* exactly one row for each natural key of the batch, and both uploads return
\* success.
C11_UpsertTwiceIsOnce ==
    (variant = "upsert" /\ Len(reports) >= 2) =>
        /\ reports[2].table = reports[1].table
        /\ \A k \in 1..Len(typed_rows) :
              Cardinality(SameKey(reports[2].table, typed_rows[k])) = 1
        /\ reports[1].ret.ok
        /\ reports[2].ret.ok

C11_Witness ==
    /\ variant = "upsert"
    /\ Len(reports) = 2
    /\ Len(typed_rows) = 2
    /\ KeyOf(typed_rows[1], NaturalKey) # KeyOf(typed_rows[2], NaturalKey)
    /\ typed_rows[2].pos = None
    /\ Len(table) = 2
    /\ table[1] = typed_rows[1]

\* What the claim says of the record made from the fields toks: the k-th
\* expected column holds the k-th field (empty when the row is short), and the
\* last column holds all that is left of a long row.
PositionalRecord(toks, rec) ==
    /\ DOMAIN rec = Range(ExpectedColumns)
    /\ Cardinality(DOMAIN rec) = Len(ExpectedColumns)
    /\ \A j \in 1..(Len(ExpectedColumns) - 1) :
          rec[ExpectedColumns[j]] = IF j <= Len(toks) THEN toks[j] ELSE <<>>
    /\ rec["comment"] =
          IF Len(toks) < Len(ExpectedColumns) THEN <<>>
          ELSE JoinFields(SubSeq(toks, Len(ExpectedColumns), Len(toks)))

\* C12: every record parse_csv_file emits, from a row of any field count, has
\* exactly the 39 expected columns, each filled from the field at its position,
\* whatever the number of columns of the header row.
C12_RecordHasExpectedColumns ==
    \A k \in 1..Len(parsed_rows) :
        PositionalRecord(parsed_rows[k].row, parsed_rows[k].row_dict)

\* Rows of 0, 1, 39 and 40 fields emitted under a header of one column.
C12_Witness ==
    /\ parse_ret = "returned"
    /\ Len(ReadRecord(lines, 1).row) = 1
    /\ Len(parsed_rows) = 3
    /\ Len(parsed_rows[1].row) = 0
    /\ Len(parsed_rows[2].row) = Len(ExpectedColumns) + 1
    /\ Len(parsed_rows[3].row) = Len(ExpectedColumns)

\* The parsed row r was read from a line that holds the 38 intact fields and
\* the comment text c, which the reader split at its delimiters.
SplitComment(r, c) ==
    /\ c \in Comments
    /\ lines[r.first] = FullLine(c)
    /\ Len(r.row) > Len(ExpectedColumns)

\* C13: when the comment of a row with 38 intact leading fields was split into
\* two or more fields at its delimiters, the repaired record's comment is the
\* comment text of the line and its other 38 columns are the intact fields.
C13_RepairRestoresComment ==
    \A k \in 1..Len(parsed_rows) : \A c \in Comments :
        SplitComment(parsed_rows[k], c) =>
            /\ parsed_rows[k].row_dict["comment"] = c
            /\ \A j \in 1..CommentIndex :
                  parsed_rows[k].row_dict[ExpectedColumns[j]] = IntactFields[j]

\* The same, for comment texts without a quote character.
C13_RepairRestoresUnquotedComment ==
    \A k \in 1..Len(parsed_rows) : \A c \in Comments :
        (SplitComment(parsed_rows[k], c) /\ Quote \notin Range(c)) =>
            /\ parsed_rows[k].row_dict["comment"] = c
            /\ \A j \in 1..CommentIndex :
                  parsed_rows[k].row_dict[ExpectedColumns[j]] = IntactFields[j]

\* parse_csv_file is over, in a file with a readable header.
ParseOver == parse_ret \in {"returned", "raised"} /\ lines # <<>> /\ ~lines[1].bad

\* The data lines on which the reader raises.
BadLines == {n \in 2..Len(lines) : lines[n].bad}

\* The readable data lines that start a record of their own (no quote
\* character stands on or before them).
OwnLines ==
    {n \in 2..Len(lines) :
        /\ ~lines[n].bad
        /\ \A m \in 2..n : Quote \notin Range(lines[m].text)}

\* C17: a data row on which the reader raises is skipped alone: parse_csv_file
\* still returns, with a record for every other row, before and after it.
C17_BadRowSkippedAlone ==
    (ParseOver /\ BadLines # {}) =>
        /\ parse_ret = "returned"
        /\ \A n \in OwnLines : \E k \in 1..Len(parsed_rows) : parsed_rows[k].first = n

IntCoercions == {"safe_convert_to_int", "safe_int"}
FloatCoercions == {"safe_convert_to_float", "safe_float"}
StrCoercions == {"safe_convert_to_str"}

\* C14: no coercion function raises, whatever the value: each returns null or a
\* value of its type, and so no transform of a record fails on a bad value.
C14_CoercionNeverRaises ==
    coerced # NotCalled =>
        /\ coerced.raised = "no"
        /\ coerced.fn \in IntCoercions => coerced.value.t \in {"none", "int"}
        /\ coerced.fn \in FloatCoercions => coerced.value.t \in {"none", "float"}
        /\ coerced.fn \in StrCoercions => coerced.value.t \in {"none", "str"}

\* What the code does: a call raises exactly on a value whose float is an infinity
\* and which is to become an int.
C14_RaisesOnInfinityOnly ==
    coerced # NotCalled =>
        (coerced.raised # "no" <=>
            /\ PyFloatOf(cell).exc = "no"
            /\ PyFloatOf(cell).value.f.cls = "inf"
            /\ cell.t # "str" \/ variant \in CsvVariants
            /\ \/ coerced.fn \in IntCoercions
               \/ coerced.fn = "transform_row_for_supabase" /\ coerced.col \in IntColumns)

\* The literal text NaN and the missing-value markers.
NaNText == PyStr(<<"N", "a", "N">>)
MissingMarkers == {NaNText, None, EmptyStr}

\* C15: the text "NaN" (or a missing value) in a numeric column gives null from
\* the integer and from the float coercion: no NaN number, no exception.
C15_NaNTextIsNull ==
    (cell \in MissingMarkers /\ coerced.fn \in IntCoercions \cup FloatCoercions) =>
        coerced.raised = "no" /\ coerced.value = None

\* A text with a decimal point that float() reads as a finite number.
DecimalNumeral(v) ==
    /\ v.t = "str"
    /\ "." \in Range(v.s)
    /\ ParseFloat(v.s).ok
    /\ ParseFloat(v.s).f.cls = "fin"

\* Null, the empty text, and texts float() does not read.
NotNumeric(v) == v = None \/ (v.t = "str" /\ ~ParseFloat(v.s).ok)

\* C16: the integer coercion of every script turns a numeral with a decimal
\* point into the truncated float, and null, empty and non-numeric text
\* into null.
C16_DecimalTextTruncates ==
    coerced.fn \in IntCoercions =>
        /\ DecimalNumeral(cell) =>
              coerced.raised = "no" /\ coerced.value = PyInt(Trunc(ParseFloat(cell.s).f))
        /\ NotNumeric(cell) => coerced.raised = "no" /\ coerced.value = None

\* The same, of safe_convert_to_int alone.
C16_CsvDecimalTextTruncates ==
    coerced.fn = "safe_convert_to_int" =>
        /\ DecimalNumeral(cell) =>
              coerced.raised = "no" /\ coerced.value = PyInt(Trunc(ParseFloat(cell.s).f))
        /\ NotNumeric(cell) => coerced.raised = "no" /\ coerced.value = None

\* The runners of a document in document order, each with its race.
RunnersIn(doc) ==
    Concat([k \in 1..Len(RacesOf(doc)) |->
              [j \in 1..Len(RunnersOf(RacesOf(doc)[k])) |->
                  [race |-> RacesOf(doc)[k], runner |-> RunnersOf(RacesOf(doc)[k])[j]]]])

\* The row keys filled from a race / from a runner, and those that hold an
\* array or object of the source.
RaceKeys == {RaceFields[k][1] : k \in 1..Len(RaceFields)}
PassedRaceKeys == {RaceFields[k][1] : k \in {j \in 1..Len(RaceFields) : RaceFields[j][3] = "get"}}
StructuredFields ==
    {f \in Range(RaceFields) \cup Range(RunnerFields) : f[3] = "json"}
EmptyStructures == {PyStr(<<"[", "]">>), PyStr(<<"{", "}">>)}

\* What the claim says of the rows flattened from doc.
FlattenedAsClaimed(doc, out) ==
    /\ out.raised = "no"
    /\ Len(out.rows) = Len(RunnersIn(doc))
    /\ \A k \in 1..Len(out.rows) :
          LET row == out.rows[k]
              race == RunnersIn(doc)[k].race
              runner == RunnersIn(doc)[k].runner
          IN  /\ row["horse_name"] = Get(runner, "name")
              /\ \A key \in PassedRaceKeys : row[key] = Get(race, key)
              /\ \A j \in 1..Len(out.rows) :
                    RunnersIn(doc)[j].race = race =>
                        \A key \in RaceKeys : out.rows[j][key] = row[key]
              /\ \A f \in StructuredFields :
                    /\ row[f[1]] \notin EmptyStructures
                    /\ (f \in Range(RaceFields) /\ f[2] \notin DOMAIN race) => row[f[1]] = None
                    /\ (f \in Range(RunnerFields) /\ f[2] \notin DOMAIN runner) => row[f[1]] = None

\* C19: flatten_race_data returns one row per runner in document order (none
\* for a race without runners), each row with its race's fields whatever the
\* runner holds, and null, never "[]" or "{}", for an absent array or object.
C19_OneRowPerRunner ==
    flat.done => FlattenedAsClaimed(races_data, flat)

\* A number of the document is an infinity (the JSON numbers 1e999, Infinity).
Infinite(v) == v.t = "float" /\ v.f.cls = "inf"
HoldsInfinity(doc) ==
    \E k \in 1..Len(RacesOf(doc)) :
        \/ \E key \in DOMAIN RacesOf(doc)[k] : Infinite(RacesOf(doc)[k][key])
        \/ \E j \in 1..Len(RunnersOf(RacesOf(doc)[k])) :
              \E key \in DOMAIN RunnersOf(RacesOf(doc)[k])[j] :
                  Infinite(RunnersOf(RacesOf(doc)[k])[j][key])

\* The same, of documents that hold no infinite number.
C19_FiniteOneRowPerRunner ==
    (flat.done /\ ~HoldsInfinity(races_data)) => FlattenedAsClaimed(races_data, flat)

\* The rows of the batches formed so far whose transform raises.
RaisingRows == {r \in Range(Flatten(batches)) : r \in up_bad}

\* The rows the refused calls among the first n store calls were cut from.
RECURSIVE RefusedSizes(_)
RefusedSizes(n) ==
    IF n = 0 THEN 0
    ELSE RefusedSizes(n - 1) + (IF n \in RefusedCalls THEN submitted[n].size ELSE 0)

\* The store calls made for batch number b.
CallsFor(b) == {k \in 1..Len(submitted) : submitted[k].batch_num = b}

\* C18: in the CSV uploaders the rows submitted for a batch are exactly its
\* rows whose transform succeeded, in their original order; each row whose
\* transform raises is dropped and adds exactly one to the failed count; and a
\* batch none of whose rows transforms is not submitted, and the loop goes on
\* to the next batch.
C18_RaisingRowsDropped ==
    variant \in CsvVariants =>
        /\ \A k \in 1..Len(submitted) :
              LET batch == batches[submitted[k].batch_num]
              IN  /\ submitted[k].rows = SelectSeq(batch, LAMBDA r : r \notin up_bad)
                  /\ submitted[k].rows # <<>>
        /\ \A b \in 1..Len(batches) :
              IF \A j \in 1..Len(batches[b]) : batches[b][j] \in up_bad
                  THEN CallsFor(b) = {}
                  ELSE Cardinality(CallsFor(b)) = 1
        /\ failed_uploads = Cardinality(RaisingRows) + RefusedSizes(Len(submitted))
        /\ Completed => Len(batches) = CeilDiv(Len(up_rows), batch_size)

\* A completed CSV upload, one row a batch, whose first row raised in the
\* transform: its batch was passed over and every later batch was submitted.
C18_Witness ==
    /\ variant \in CsvVariants
    /\ Completed
    /\ batch_size = 1
    /\ Len(up_rows) >= 2
    /\ up_bad = {up_rows[1]}
    /\ CallsFor(1) = {}
    /\ Len(submitted) = Len(up_rows) - 1
    /\ failed_uploads >= 1

\* C20: when upload_to_supabase has gone through all R rows, whatever the
\* transform failures and the store's answers, successful_uploads plus
\* failed_uploads is R: every row is counted once, accepted or failed.
C20_EveryRowCountedOnce ==
    Completed => successful_uploads + failed_uploads = Len(up_rows)

\* The same, of the racecard uploader alone.
C20_CardsEveryRowCountedOnce ==
    (Completed /\ variant = "cards") => successful_uploads + failed_uploads = Len(up_rows)

====
